---- MODULE Spec2Model ----
(***************************************************************************)
(* Huffman file compressor (src/file_compressor.cpp): FileCompressor's     *)
(* compress and decompress, with the helpers they call (buildCodeMap,      *)
(* writeTree, readTree), as one state machine.  A byte is a number in      *)
(* 0..255, a file is a sequence of bytes, a bit string (the C++ strings of *)
(* '0' and '1') is a sequence of 0 and 1.                                  *)
(***************************************************************************)
EXTENDS Integers, Sequences, FiniteSets

(* ------------------------------ bounds --------------------------------- *)
\* Inputs are every byte sequence of at most MaxLen bytes over Alphabet ...
MaxLen == 3
\* ... and every input made of runs of at most MaxRun copies of each byte.
MaxRun == 3
\* Longest body that follows the four magic bytes of a foreign file.
MaxBody == 3
\* Nesting of readTree frames whose discriminator was never read (see ReadTree).
MaxGarbage == 1
\* Most bytes that follow the payload of an extended container.
MaxTrail == 1

(* ------------------------- program constants --------------------------- *)
CharH == 72
CharU == 85
CharF == 70
\* '1': the leaf marker of the tree format, and the last byte of the magic tag
LeafMark == 49
\* '0': the internal-node marker
NodeMark == 48
\* '#': the delimiter written after the tree
Delim == 35
\* '\0': the ch of an internal node
Nul == 0
\* the value of padding that stands for "no bit appended"
NoPad == 8
\* sizeof(size_t) on the 64-bit targets the program is built for
SizeBytes == 8

Magic == <<CharH, CharU, CharF, LeafMark>>

\* The bytes inputs are made of: the three bytes the format gives a meaning
\* to, and one it does not ('a').
Alphabet == {Delim, NodeMark, LeafMark, 97}

\* A char object that was never written (in.get failed): its value is
\* indeterminate, and every read of it may yield any value.
Indet == 0 - 1

\* The values an indeterminate char stands for where the code only compares
\* it with '1' and '0': '0', '1', and one value that is neither.
IndetChars == {NodeMark, LeafMark, Nul}

(* ----------------------------- struct Node ----------------------------- *)
NULL == <<>>

Node(c, f, l, r) == <<c, f, l, r>>

Ch(n) == n[1]

Freq(n) == n[2]

Left(n) == n[3]

Right(n) == n[4]

\* !node->left && !node->right
IsLeaf(n) == Left(n) = NULL /\ Right(n) = NULL

\* struct Compare: operator()(a, b) is a->freq > b->freq
CompareFlipped(a, b) == Freq(a) < Freq(b)

Compare(a, b) == Freq(a) > Freq(b)

\* priority_queue<Node*, vector<Node*>, Compare>::top(): an element that
\* Compare puts before no other.  Which of several such elements the heap
\* holds on top depends on the order of the pushes (the iteration order of
\* unordered_map) and on the library's heap algorithm; Compare says nothing
\* about it, so top() is any of them.
Top(q) == {n \in q : \A m \in q : ~Compare(n, m)}

(* ------------------------------ helpers -------------------------------- *)
RECURSIVE Rep(_, _)
\* string(n, c)
Rep(c, n) == IF n = 0 THEN <<>> ELSE <<c>> \o Rep(c, n - 1)

RECURSIVE SumOver(_, _)
SumOver(S, f) ==
  IF S = {} THEN 0
  ELSE LET x == CHOOSE y \in S : TRUE IN f[x] + SumOver(S \ {x}, f)

RECURSIVE Pow2(_)
Pow2(k) == IF k = 0 THEN 1 ELSE 2 * Pow2(k - 1)

\* bitset<8> b(byte); b.to_string(): the eight bits, most significant first
ByteToBits(b) == [i \in 1..8 |-> (b \div Pow2(8 - i)) % 2]

\* bitset<8> b(buffer.substr(i, 8)); (unsigned char)b.to_ulong()
BitsToByte(s) ==
  SumOver(1..Len(s), [i \in 1..Len(s) |-> s[i] * Pow2(Len(s) - i)])

RECURSIVE BitsOf(_)
\* the loop "while (in.get(byte)) bitString += bitset<8>(byte).to_string()"
BitsOf(bytes) ==
  IF bytes = <<>> THEN <<>> ELSE ByteToBits(Head(bytes)) \o BitsOf(Tail(bytes))

RECURSIVE PackBits(_)
\* the loop "for (i = 0; i < buffer.size(); i += 8) out.put(...)"
PackBits(bits) ==
  IF bits = <<>> THEN <<>>
  ELSE LET n == IF Len(bits) < 8 THEN Len(bits) ELSE 8
       IN <<BitsToByte(SubSeq(bits, 1, n))>> \o PackBits(SubSeq(bits, n + 1, Len(bits)))

RECURSIVE LittleEndian(_, _)
\* out.write(reinterpret_cast<const char*>(&totalChars), sizeof(totalChars)):
\* the object representation of a size_t, least significant byte first
LittleEndian(n, k) ==
  IF k = 0 THEN <<>> ELSE <<n % 256>> \o LittleEndian(n \div 256, k - 1)

RECURSIVE LeqFrom(_, _, _)
\* a <= b for two size_t object representations, decided from byte i down
LeqFrom(a, b, i) ==
  IF i = 0 THEN TRUE
  ELSE IF a[i] < b[i] THEN TRUE
  ELSE IF a[i] > b[i] THEN FALSE
  ELSE LeqFrom(a, b, i - 1)

\* the comparison written "decodedChars > originalSize"
SizeReachedLate(decoded, size) ==
  IF Len(size) < SizeBytes THEN BOOLEAN
  ELSE {~LeqFrom(LittleEndian(decoded, SizeBytes), size, SizeBytes)}

\* "decodedChars >= originalSize".  originalSize holds the bytes in.read
\* stored; when the file ended inside the field the rest of the object is
\* indeterminate and the comparison may go either way.
SizeReached(decoded, size) ==
  IF Len(size) < SizeBytes THEN BOOLEAN
  ELSE {LeqFrom(size, LittleEndian(decoded, SizeBytes), SizeBytes)}

\* a char holding byte b, as the signed char of the x86-64 build
Signed(b) == IF b < 128 THEN b ELSE b - 256

(* --------------------------- frequency table --------------------------- *)
\* the loop "while (in.get(ch)) { freq[ch]++; totalChars++; }"
CountFreq(x) ==
  [c \in {x[i] : i \in 1..Len(x)} |-> Cardinality({i \in 1..Len(x) : x[i] = c})]

(* ------------------------------ tree codec ----------------------------- *)
RECURSIVE CodePairsSameBit(_, _)
\* buildCodeMap with "0" appended on the way right as on the way left
CodePairsSameBit(n, str) ==
  IF n = NULL THEN {}
  ELSE (IF IsLeaf(n) THEN {<<Ch(n), IF str = <<>> THEN <<0>> ELSE str>>} ELSE {})
       \cup CodePairsSameBit(Left(n), str \o <<0>>)
       \cup CodePairsSameBit(Right(n), str \o <<0>>)

RECURSIVE CodePairs(_, _)
\* buildCodeMap(root, str, codeMap): the assignments it makes to codeMap
CodePairs(n, str) ==
  IF n = NULL THEN {}
  ELSE (IF IsLeaf(n) THEN {<<Ch(n), IF str = <<>> THEN <<0>> ELSE str>>} ELSE {})
       \cup CodePairs(Left(n), str \o <<0>>)
       \cup CodePairs(Right(n), str \o <<1>>)

BuildCodeMap(n) ==
  LET pairs == CodePairs(n, <<>>)
  IN [c \in {p[1] : p \in pairs} |-> (CHOOSE p \in pairs : p[1] = c)[2]]

RECURSIVE WriteTreeRightFirst(_)
\* writeTree with the two recursive calls in the other order
WriteTreeRightFirst(n) ==
  IF n = NULL THEN <<>>
  ELSE IF IsLeaf(n) THEN <<LeafMark, Ch(n)>>
  ELSE <<NodeMark>> \o WriteTreeRightFirst(Right(n)) \o WriteTreeRightFirst(Left(n))

RECURSIVE WriteTree(_)
\* writeTree(node, out): the bytes it puts
WriteTree(n) ==
  IF n = NULL THEN <<>>
  ELSE IF IsLeaf(n) THEN <<LeafMark, Ch(n)>>
  ELSE <<NodeMark>> \o WriteTree(Left(n)) \o WriteTree(Right(n))

RECURSIVE ReadTree(_, _, _)
\* readTree(in), called with the stream at position pos of file f: the set of
\* its possible outcomes [crash, bad, node, pos, g].  in.get(type) at the end
\* of the file stores nothing, so type (and ch likewise) is indeterminate: the
\* code then takes any of its three branches.  Nothing ends the recursion of
\* frames that take the '0' branch on an indeterminate type but chance or the
\* end of the stack; g counts those frames, and the MaxGarbage-th is the last
\* one followed: from the next one on the descent is taken not to end (crash).
\* bad records that a get failed or that type was neither '1' nor '0'.
ReadTree(f, pos, g) ==
  LET eof == pos > Len(f)
      p1 == IF eof THEN pos ELSE pos + 1
      Branch(type) ==
        IF type = LeafMark
        THEN {[crash |-> FALSE, bad |-> eof \/ p1 > Len(f),
               node |-> Node(IF p1 > Len(f) THEN Indet ELSE f[p1], 0, NULL, NULL),
               pos |-> IF p1 > Len(f) THEN p1 ELSE p1 + 1, g |-> g]}
        ELSE IF type = NodeMark
        THEN IF eof /\ g >= MaxGarbage
             THEN {[crash |-> TRUE, bad |-> TRUE, node |-> NULL, pos |-> p1, g |-> g]}
             ELSE UNION {IF l.crash THEN {l}
                         ELSE {IF r.crash THEN r
                               ELSE [crash |-> FALSE,
                                     bad |-> eof \/ l.bad \/ r.bad,
                                     node |-> Node(Nul, 0, l.node, r.node),
                                     pos |-> r.pos, g |-> r.g]
                               : r \in ReadTree(f, l.pos, l.g)}
                         : l \in ReadTree(f, p1, IF eof THEN g + 1 ELSE g)}
        ELSE {[crash |-> FALSE, bad |-> TRUE, node |-> NULL, pos |-> p1, g |-> g]}
  IN UNION {Branch(type) : type \in IF eof THEN IndetChars ELSE {f[pos]}}

(* ------------------------------- encoding ------------------------------ *)
RECURSIVE EncodeAll(_, _)
\* the loop "while (in.get(ch)) buffer += codeMap[ch]"
EncodeAll(x, codes) ==
  IF x = <<>> THEN <<>> ELSE codes[Head(x)] \o EncodeAll(Tail(x), codes)

\* int padding = 8 - (buffer.size() % 8)
PaddingForOff(size) == size % 8

PaddingFor(size) == 8 - (size % 8)

\* "if (padding != 8) bitString = bitString.substr(0, bitString.size() - padding)":
\* the count is a size_t, so a padding that is negative or larger than the
\* string makes it exceed the size and substr keeps the whole string.
StripPadding(bits, pad) ==
  LET sp == Signed(pad)
  IN IF sp = NoPad THEN bits
     ELSE IF sp > 0 /\ sp <= Len(bits) THEN SubSeq(bits, 1, Len(bits) - sp)
     ELSE bits

\* "string(magic) != \"HUF1\"" after in.read(magic, 4) on file f, negated: the
\* possible answers.  in.read stores only the bytes the file has; the rest of
\* magic[0..3] keeps whatever the stack held, which may or may not complete
\* the tag.
MagicMatches(f) ==
  IF Len(f) >= 4 THEN {SubSeq(f, 1, 4) = Magic}
  ELSE IF f = SubSeq(Magic, 1, Len(f)) THEN BOOLEAN
  ELSE {FALSE}

(* ------------------------------- inputs -------------------------------- *)
RECURSIVE RunsOf(_, _)
RunsOf(S, f) ==
  IF S = {} THEN <<>>
  ELSE LET c == CHOOSE y \in S : \A z \in S : y <= z
       IN Rep(c, f[c]) \o RunsOf(S \ {c}, f)

\* the input files compress is run on
Inputs ==
  UNION {[1..k -> Alphabet] : k \in 0..MaxLen}
  \cup {RunsOf(Alphabet, f) : f \in [Alphabet -> 0..MaxRun]}

\* the bytes that follow the payload of an extended container: nothing but
\* zero bits, or nothing but one bits
Trailers == UNION {[1..k -> {Nul, 255}] : k \in 1..MaxTrail}

\* the files decompress is run on that compress did not write: the proper
\* prefixes of the magic tag, and the tag, whole or with one byte changed,
\* followed by a few bytes
ForeignFiles ==
  {SubSeq(Magic, 1, n) : n \in 0..3}
  \cup {m \o b : m \in {Magic} \cup {[Magic EXCEPT ![i] = Delim] : i \in 1..4},
                 b \in UNION {[1..k -> {NodeMark, LeafMark, Delim}] : k \in 0..MaxBody}}

(* -------------------------------- state -------------------------------- *)
VARIABLES
  pc,            \* where the program is
  input,         \* compress: the input file
  freq,          \* compress: unordered_map<char, int> freq
  totalChars,    \* compress: size_t totalChars
  pq,            \* compress: the priority queue, as the set of its nodes
  root,          \* compress: Node* root
  codeMap,       \* compress: unordered_map<char, string> codeMap
  buffer,        \* compress: string buffer
  padding,       \* compress: int padding
  container,     \* compress: the output file
  run,           \* how many times compress was started on input
  first,         \* the container the first run wrote
  topOnEmpty,    \* pq.top() was called on an empty queue
  file,          \* decompress: the input file
  kind,          \* what file is: "intact", "truncated", "extended" or "foreign"
  inPos,         \* decompress: the next position of stream in
  droot,         \* decompress: Node* root
  treeBad,       \* readTree hit the end of the file or a bad discriminator
  delimiter,     \* decompress: char delimiter
  originalSize,  \* decompress: the bytes of size_t originalSize that were read
  dpadding,      \* decompress: char padding
  bitString,     \* decompress: string bitString
  bitPos,        \* decompress: the position of the range-for in bitString
  curr,          \* decompress: Node* curr
  decodedChars,  \* decompress: size_t decodedChars
  out,           \* decompress: the output file
  result         \* decompress: "true" or "false" once it returned

cvars == <<input, freq, totalChars, pq, root, codeMap, buffer, padding,
           container, run, first, topOnEmpty>>

dvars == <<file, kind, inPos, droot, treeBad, delimiter, originalSize,
           dpadding, bitString, bitPos, curr, decodedChars, out, result>>

vars == <<pc, cvars, dvars>>

Init ==
  /\ pc = "menu"
  /\ input = <<>>
  /\ freq = <<>>
  /\ totalChars = 0
  /\ pq = {}
  /\ root = NULL
  /\ codeMap = <<>>
  /\ buffer = <<>>
  /\ padding = 0
  /\ container = <<>>
  /\ run = 0
  /\ first = <<>>
  /\ topOnEmpty = FALSE
  /\ file = <<>>
  /\ kind = "none"
  /\ inPos = 1
  /\ droot = NULL
  /\ treeBad = FALSE
  /\ delimiter = Indet
  /\ originalSize = <<>>
  /\ dpadding = Indet
  /\ bitString = <<>>
  /\ bitPos = 1
  /\ curr = NULL
  /\ decodedChars = 0
  /\ out = <<>>
  /\ result = "none"

(* ------------------------------ compress ------------------------------- *)
\* main: the user picks "compress" and names an input file
StartCompress ==
  /\ pc = "menu"
  /\ \E x \in Inputs : input' = x
  /\ run' = 1
  /\ pc' = "count"
  /\ UNCHANGED <<freq, totalChars, pq, root, codeMap, buffer, padding,
                 container, first, topOnEmpty, dvars>>

\* compress, lines 240-262: count the frequencies, push one node per symbol
CountAndPush ==
  /\ pc = "count"
  /\ freq' = CountFreq(input)
  /\ totalChars' = Len(input)
  /\ pq' = {Node(c, freq'[c], NULL, NULL) : c \in DOMAIN freq'}
  /\ pc' = "single"
  /\ UNCHANGED <<input, root, codeMap, buffer, padding, container, run, first,
                 topOnEmpty, dvars>>

\* compress, lines 266-273: a queue of one leaf gets a root above the leaf
SingleCharacter ==
  /\ pc = "single"
  /\ pq' = IF Cardinality(pq) = 1
           THEN LET single == CHOOSE n \in pq : TRUE
                IN {Node(Nul, Freq(single), single, NULL)}
           ELSE pq
  /\ pc' = "merge"
  /\ UNCHANGED <<input, freq, totalChars, root, codeMap, buffer, padding,
                 container, run, first, topOnEmpty, dvars>>

\* compress, lines 275-282: one iteration of the merge loop
MergeStep ==
  /\ pc = "merge"
  /\ Cardinality(pq) > 1
  /\ \E l \in Top(pq) : \E r \in Top(pq \ {l}) :
       pq' = (pq \ {l, r}) \cup {Node(Nul, Freq(l) + Freq(r), l, r)}
  /\ UNCHANGED <<pc, input, freq, totalChars, root, codeMap, buffer, padding,
                 container, run, first, topOnEmpty, dvars>>

\* compress, lines 284-286: root = pq.top(), then buildCodeMap
TakeRoot ==
  /\ pc = "merge"
  /\ Cardinality(pq) = 1
  /\ root' = CHOOSE n \in pq : TRUE
  /\ codeMap' = BuildCodeMap(root')
  /\ pc' = "write"
  /\ UNCHANGED <<input, freq, totalChars, pq, buffer, padding, container, run,
                 first, topOnEmpty, dvars>>

\* compress, line 284 on an empty queue (an empty input): top() of an empty
\* priority_queue is undefined.  It reads a Node* through the null begin() of
\* the empty vector and the process dies, or it yields whatever is there: a
\* null pointer lets compress run on.
TakeRootOfEmpty ==
  /\ pc = "merge"
  /\ pq = {}
  /\ topOnEmpty' = TRUE
  /\ \E dies \in BOOLEAN :
       IF dies
       THEN pc' = "crashed" /\ UNCHANGED <<root, codeMap>>
       ELSE pc' = "write" /\ root' = NULL /\ codeMap' = BuildCodeMap(NULL)
  /\ UNCHANGED <<input, freq, totalChars, pq, buffer, padding, container, run,
                 first, dvars>>

\* compress, lines 291-298: magic tag, tree, delimiter, original size
WriteHeader ==
  /\ pc = "write"
  /\ container' = Magic \o WriteTree(root) \o <<Delim>>
                    \o LittleEndian(totalChars, SizeBytes)
  /\ pc' = "encode"
  /\ UNCHANGED <<input, freq, totalChars, pq, root, codeMap, buffer, padding,
                 run, first, topOnEmpty, dvars>>

\* compress, lines 303-319: encode, pad, write the padding count and the bytes
EncodeData ==
  /\ pc = "encode"
  /\ LET bits == EncodeAll(input, codeMap)
         p == PaddingFor(Len(bits))
     IN /\ padding' = p
        /\ buffer' = IF p # NoPad THEN bits \o Rep(0, p) ELSE bits
  /\ container' = container \o <<padding' % 256>> \o PackBits(buffer')
  /\ pc' = "compressed"
  /\ UNCHANGED <<input, freq, totalChars, pq, root, codeMap, run, first,
                 topOnEmpty, dvars>>

\* main: the user compresses the same input file once more
CompressAgain ==
  /\ pc = "compressed"
  /\ run = 1
  /\ first' = container
  /\ run' = 2
  /\ freq' = <<>>
  /\ totalChars' = 0
  /\ pq' = {}
  /\ root' = NULL
  /\ codeMap' = <<>>
  /\ buffer' = <<>>
  /\ padding' = 0
  /\ container' = <<>>
  /\ pc' = "count"
  /\ UNCHANGED <<input, topOnEmpty, dvars>>

(* ----------------------------- decompress ------------------------------ *)
\* the bytes of container that follow the padding count
PayloadOf(c) == SubSeq(c, Len(Magic) + Len(WriteTree(root)) + SizeBytes + 3, Len(c))

\* main: the user picks "decompress" and names the file compress just wrote
OpenContainer ==
  /\ pc = "compressed"
  /\ run = 1
  /\ file' = container
  /\ kind' = "intact"
  /\ pc' = "magic"
  /\ UNCHANGED <<cvars, inPos, droot, treeBad, delimiter, originalSize,
                 dpadding, bitString, bitPos, curr, decodedChars, out, result>>

\* ... or that file with the last k bytes of its payload removed
OpenTruncated ==
  /\ pc = "compressed"
  /\ run = 1
  /\ \E k \in 1..Len(PayloadOf(container)) :
       file' = SubSeq(container, 1, Len(container) - k)
  /\ kind' = "truncated"
  /\ pc' = "magic"
  /\ UNCHANGED <<cvars, inPos, droot, treeBad, delimiter, originalSize,
                 dpadding, bitString, bitPos, curr, decodedChars, out, result>>

\* ... or that file with bytes appended to it
OpenExtended ==
  /\ pc = "compressed"
  /\ run = 1
  /\ \E t \in Trailers : file' = container \o t
  /\ kind' = "extended"
  /\ pc' = "magic"
  /\ UNCHANGED <<cvars, inPos, droot, treeBad, delimiter, originalSize,
                 dpadding, bitString, bitPos, curr, decodedChars, out, result>>

\* ... or a file that compress did not write
OpenForeign ==
  /\ pc = "menu"
  /\ \E f \in ForeignFiles : file' = f
  /\ kind' = "foreign"
  /\ pc' = "magic"
  /\ UNCHANGED <<cvars, inPos, droot, treeBad, delimiter, originalSize,
                 dpadding, bitString, bitPos, curr, decodedChars, out, result>>

\* decompress, lines 350-358: read four bytes, compare them with "HUF1"
CheckMagic ==
  /\ pc = "magic"
  /\ inPos' = IF Len(file) >= 4 THEN 5 ELSE Len(file) + 1
  /\ \E ok \in MagicMatches(file) :
       IF ok
       THEN pc' = "tree" /\ UNCHANGED result
       ELSE pc' = "returned" /\ result' = "false"
  /\ UNCHANGED <<cvars, file, kind, droot, treeBad, delimiter, originalSize,
                 dpadding, bitString, bitPos, curr, decodedChars, out>>

\* decompress, line 362: root = readTree(in)
ReadRoot ==
  /\ pc = "tree"
  /\ \E t \in ReadTree(file, inPos, 0) :
       IF t.crash
       THEN pc' = "crashed" /\ treeBad' = TRUE /\ UNCHANGED <<droot, inPos>>
       ELSE pc' = "sizes" /\ droot' = t.node /\ inPos' = t.pos /\ treeBad' = t.bad
  /\ UNCHANGED <<cvars, file, kind, delimiter, originalSize, dpadding,
                 bitString, bitPos, curr, decodedChars, out, result>>

\* decompress, lines 363-372: the delimiter, the original size, the padding
ReadSizes ==
  /\ pc = "sizes"
  /\ LET n == Len(file)
         p1 == IF inPos > n THEN inPos ELSE inPos + 1
         p2 == IF p1 + SizeBytes - 1 <= n THEN p1 + SizeBytes ELSE n + 1
     IN /\ delimiter' = IF inPos > n THEN Indet ELSE file[inPos]
        /\ originalSize' = SubSeq(file, p1, p2 - 1)
        /\ dpadding' = IF p2 > n THEN Indet ELSE file[p2]
        /\ inPos' = IF p2 > n THEN p2 ELSE p2 + 1
  /\ pc' = "payload"
  /\ UNCHANGED <<cvars, file, kind, droot, treeBad, bitString, bitPos, curr,
                 decodedChars, out, result>>

\* decompress, lines 374-389: the rest of the file as bits, less the padding.
\* An indeterminate padding is compared and subtracted as any char value.
ReadPayload ==
  /\ pc = "payload"
  /\ \E pad \in (IF dpadding = Indet THEN 0..255 ELSE {dpadding}) :
       bitString' = StripPadding(BitsOf(SubSeq(file, inPos, Len(file))), pad)
  /\ inPos' = Len(file) + 1
  /\ curr' = droot
  /\ decodedChars' = 0
  /\ bitPos' = 1
  /\ pc' = "decode"
  /\ UNCHANGED <<cvars, file, kind, droot, treeBad, delimiter, originalSize,
                 dpadding, out, result>>

\* decompress, lines 391-402: one iteration of the decoding loop on the bit
\* at bitPos.  curr->left of a null curr kills the process.
DecodeBit ==
  /\ pc = "decode"
  /\ bitPos <= Len(bitString)
  /\ FALSE \in SizeReached(decodedChars, originalSize)
  /\ LET next == IF curr = NULL THEN NULL
                 ELSE IF bitString[bitPos] = 0 THEN Left(curr) ELSE Right(curr)
     IN IF next = NULL
        THEN pc' = "crashed" /\ UNCHANGED <<curr, decodedChars, out, bitPos>>
        ELSE /\ pc' = "decode"
             /\ bitPos' = bitPos + 1
             /\ IF IsLeaf(next)
                THEN /\ \E c \in (IF Ch(next) = Indet THEN 0..255 ELSE {Ch(next)}) :
                          out' = Append(out, c)
                     /\ curr' = droot
                     /\ decodedChars' = decodedChars + 1
                ELSE curr' = next /\ UNCHANGED <<decodedChars, out>>
  /\ UNCHANGED <<cvars, file, kind, inPos, droot, treeBad, delimiter,
                 originalSize, dpadding, bitString, result>>

\* decompress, lines 391-392 and 404-415: the loop ends, at the end of
\* bitString or at the break, and decompress returns true
DecodeReturn ==
  /\ pc = "decode"
  /\ bitPos > Len(bitString) \/ TRUE \in SizeReached(decodedChars, originalSize)
  /\ result' = "true"
  /\ pc' = "returned"
  /\ UNCHANGED <<cvars, file, kind, inPos, droot, treeBad, delimiter,
                 originalSize, dpadding, bitString, bitPos, curr, decodedChars, out>>

Next ==
  \/ StartCompress
  \/ CountAndPush
  \/ SingleCharacter
  \/ MergeStep
  \/ TakeRoot
  \/ TakeRootOfEmpty
  \/ WriteHeader
  \/ EncodeData
  \/ CompressAgain
  \/ OpenContainer
  \/ OpenTruncated
  \/ OpenExtended
  \/ OpenForeign
  \/ CheckMagic
  \/ ReadRoot
  \/ ReadSizes
  \/ ReadPayload
  \/ DecodeBit
  \/ DecodeReturn

Spec == Init /\ [][Next]_vars

(* ------------------------- notions of the claims ----------------------- *)
\* x is N >= 1 copies of one byte
IsSingleton(x) == Len(x) >= 1 /\ \A i \in 1..Len(x) : x[i] = x[1]

\* the file starts with the four bytes of the magic tag
HasMagic(f) == Len(f) >= 4 /\ SubSeq(f, 1, 4) = Magic

\* where the delimiter stands in a container: right after the tree
DelimPos == Len(Magic) + Len(WriteTree(root)) + 1

RECURSIVE Shape(_)
\* a tree without its weights: its shape and its symbols
Shape(n) == IF n = NULL THEN NULL ELSE <<Ch(n), Shape(Left(n)), Shape(Right(n))>>

RECURSIVE PathLength(_, _)
\* Sum(freq(s) * depth(s)) over the leaves of the tree n, n standing at depth d
PathLength(n, d) ==
  IF n = NULL THEN 0
  ELSE IF IsLeaf(n) THEN freq[Ch(n)] * d
  ELSE PathLength(Left(n), d + 1) + PathLength(Right(n), d + 1)

MinOf(S) == CHOOSE x \in S : \A y \in S : x <= y

RECURSIVE BestCost(_)
\* the least Sum(freq(s) * depth(s)) of a binary tree whose leaves are the
\* symbols S, by trying every split of S into a left and a right subtree
\* (each leaf of the two subtrees stands one level deeper below their
\* parent; a node with one child only adds depth, so it is never better)
BestCost(S) ==
  IF Cardinality(S) <= 1 THEN 0
  ELSE MinOf({BestCost(A) + BestCost(S \ A) + SumOver(S, freq) :
                A \in (SUBSET S) \ {{}, S}})

\* number of code bits that precede the code of the i-th input byte
CodeOffset(i) == SumOver(1..(i - 1), [j \in 1..(i - 1) |-> Len(codeMap[input[j]])])

(* ------------------------------- claims -------------------------------- *)
\* C1 (as stated; refuted by the code): decompress of the container compress
\* wrote for x returns with exactly x written, for every x (the empty and the
\* one-symbol inputs included).
C1_RoundTrip ==
  (kind = "intact" /\ pc \in {"returned", "crashed"})
    => (pc = "returned" /\ out = input)

\* C2 (as stated; refuted by the code): for N >= 1 copies of one byte b, b
\* gets a non-empty code, decompress reads back N as the original size and
\* writes exactly N copies of b.
C2_Singleton ==
  IsSingleton(input) =>
    /\ pc \in {"write", "encode", "compressed"}
         => \A c \in DOMAIN codeMap : Len(codeMap[c]) >= 1
    /\ (kind = "intact" /\ pc \in {"payload", "decode", "returned"})
         => originalSize = LittleEndian(Len(input), SizeBytes)
    /\ (kind = "intact" /\ pc = "returned") => out = input

\* C3 (as stated; refuted by the code): compress of the empty input takes no
\* root from the empty queue and writes a container of original size 0 with
\* no tree and no payload, which decompress turns into an empty output.
C3_EmptyInput ==
  (run >= 1 /\ input = <<>>) =>
    /\ ~topOnEmpty
    /\ pc # "crashed"
    /\ pc = "compressed"
         => /\ WriteTree(root) = <<>>
            /\ SubSeq(container, DelimPos + 1, DelimPos + SizeBytes)
                 = LittleEndian(0, SizeBytes)
            /\ PayloadOf(container) = <<>>
    /\ (kind = "intact" /\ pc = "returned") => (result = "true" /\ out = <<>>)

\* C4 (as stated; refuted by the code, already for inputs of two or more
\* symbols): decompress of a container that lost the last k >= 1 bytes of its
\* payload returns a failure, and never returns success with fewer symbols
\* emitted than the declared original size.
C4_TruncationDetected ==
  (kind = "truncated" /\ Cardinality(DOMAIN freq) >= 2 /\ pc = "returned")
    => /\ result = "false"
       /\ TRUE \in SizeReached(decodedChars, originalSize)

\* C5 (as stated; refuted by the code): decompress of a file that does not
\* start with the four bytes HUF1 returns false, having read no tree byte
\* and written no symbol.
C5_FormatValidation ==
  (kind # "none" /\ ~HasMagic(file) /\ pc # "magic")
    => (pc = "returned" /\ result = "false" /\ inPos <= Len(Magic) + 1 /\ out = <<>>)

\* C6 (as stated; refuted by the code): when the bytes after the magic tag
\* end before the tree is complete or a discriminator is neither '1' nor '0',
\* decompress goes no further than readTree and returns a failure.
C6_MalformedTree ==
  (kind = "foreign" /\ HasMagic(file) /\ treeBad /\ pc # "tree")
    => (pc = "returned" /\ result = "false")

\* C7 (as stated; refuted by the code): compressing the same input a second
\* time writes the same container, whatever the queue has on top among nodes
\* of equal weight.
C7_Determinism ==
  (run = 2 /\ pc = "compressed") => container = first

\* C8: for a frequency table of two or more symbols the tree of the merge
\* loop has the least weighted path length of all binary trees over those
\* symbols, and a symbol of higher frequency never has a longer code than a
\* symbol of lower frequency.
C8_Optimality ==
  (pc = "write" /\ Cardinality(DOMAIN freq) >= 2) =>
    /\ PathLength(root, 0) = BestCost(DOMAIN freq)
    /\ \A s, t \in DOMAIN freq :
         freq[s] > freq[t] => Len(codeMap[s]) <= Len(codeMap[t])

\* C8's case: four symbols, and a tree that is not the balanced one
C8_Witness ==
  /\ pc = "write"
  /\ Cardinality(DOMAIN freq) = 4
  /\ \E s, t \in DOMAIN freq : Len(codeMap[s]) = 1 /\ Len(codeMap[t]) = 3

\* C9 (as stated; refuted by the code): readTree on a container stops right
\* before the '#' that follows the tree, so that the delimiter read next is
\* '#' and the eight bytes after it are the original size, and it returns
\* the tree writeTree wrote (the tree of a one-symbol input included).
C9_TreeCodec ==
  (kind = "intact" /\ root # NULL /\ pc \in {"sizes", "payload"}) =>
    /\ Shape(droot) = Shape(root)
    /\ pc = "sizes" => (inPos = DelimPos /\ file[inPos] = Delim)
    /\ pc = "payload" =>
         (delimiter = Delim /\ originalSize = LittleEndian(totalChars, SizeBytes))

\* C10: for a non-empty input, with B the sum of freq(s) * len(code(s)), the
\* payload holds the codes of the input bytes in input order and then only
\* zero bits, it is ceil(B / 8) bytes long, and the padding count written
\* before it is the number of bits appended, or 8 when none was: always a
\* value in 1..8.
C10_Padding ==
  (pc = "compressed" /\ input # <<>>) =>
    LET B == SumOver(DOMAIN freq, [s \in DOMAIN freq |-> freq[s] * Len(codeMap[s])])
        recorded == container[DelimPos + SizeBytes + 1]
        payload == PayloadOf(container)
        bits == BitsOf(payload)
        appended == Len(bits) - B
    IN /\ CodeOffset(Len(input) + 1) = B
       /\ \A i \in 1..Len(input) :
            SubSeq(bits, CodeOffset(i) + 1, CodeOffset(i + 1)) = codeMap[input[i]]
       /\ \A i \in (B + 1)..Len(bits) : bits[i] = 0
       /\ Len(payload) = (B + 7) \div 8
       /\ recorded = (IF appended = 0 THEN 8 ELSE appended)
       /\ recorded \in 1..8
       /\ (B + appended) % 8 = 0

\* C10's case: a payload whose last byte is full, recorded as 8
C10_Witness ==
  /\ pc = "compressed"
  /\ input # <<>>
  /\ container[DelimPos + SizeBytes + 1] = NoPad
  /\ Len(PayloadOf(container)) >= 1

\* a is a prefix of b (a = b included)
IsPrefix(a, b) == Len(a) <= Len(b) /\ SubSeq(b, 1, Len(a)) = a

\* C11: for a non-empty input codeMap has a code for exactly the bytes of
\* the input, every code has at least one bit (the code of the only symbol
\* of a one-symbol input is "0"), and no code is a prefix of the code of
\* another symbol.
C11_CodeTable ==
  (pc \in {"write", "encode", "compressed"} /\ input # <<>>) =>
    /\ DOMAIN codeMap = {input[i] : i \in 1..Len(input)}
    /\ \A c \in DOMAIN codeMap : Len(codeMap[c]) >= 1
    /\ IsSingleton(input) => codeMap[input[1]] = <<0>>
    /\ \A s, t \in DOMAIN codeMap : s # t => ~IsPrefix(codeMap[s], codeMap[t])

\* C11's case: the codes of four symbols, not all of one length
C11_Witness ==
  /\ pc = "encode"
  /\ Cardinality(DOMAIN codeMap) = 4
  /\ \E s, t \in DOMAIN codeMap : Len(codeMap[s]) < Len(codeMap[t])

\* C12: in every state of the decoding loop the symbols written are the
\* decodedChars counted and are at most the original size read from the
\* file, so nothing is written once that count is reached; and a container
\* of an input of two or more symbols, followed by further bytes, is decoded
\* to exactly the input, the bits left over being ignored.
C12_StopsAtCount ==
  /\ (pc \in {"decode", "returned"} /\ Len(originalSize) = SizeBytes) =>
       /\ Len(out) = decodedChars
       /\ LeqFrom(LittleEndian(decodedChars, SizeBytes), originalSize, SizeBytes)
  /\ (kind = "extended" /\ Cardinality(DOMAIN freq) >= 2
        /\ pc \in {"returned", "crashed"}) =>
       (pc = "returned" /\ result = "true" /\ out = input)

\* C12's case: decompress returned the input of an extended container with
\* bits of the appended bytes left unread
C12_Witness ==
  /\ kind = "extended"
  /\ Cardinality(DOMAIN freq) >= 2
  /\ pc = "returned"
  /\ out = input
  /\ bitPos <= Len(bitString)
  /\ \E i \in bitPos..Len(bitString) : bitString[i] = 1

\* C13: for an input of two or more distinct bytes (the bytes '0', '1' and
\* '#' among them), whatever the queue had on top among equal weights,
\* decompress of the container reads back the tree and the original size
\* compress wrote, does not die, and returns with exactly the input written.
C13_MultiSymbolRoundTrip ==
  (kind = "intact" /\ Cardinality(DOMAIN freq) >= 2) =>
    /\ pc # "crashed"
    /\ pc \in {"sizes", "payload", "decode", "returned"}
         => (Shape(droot) = Shape(root) /\ ~treeBad)
    /\ pc \in {"payload", "decode", "returned"}
         => originalSize = LittleEndian(Len(input), SizeBytes)
    /\ pc = "returned" => (result = "true" /\ out = input)

\* C13's case: an input holding '0', '1' and '#' came back
C13_Witness ==
  /\ kind = "intact"
  /\ pc = "returned"
  /\ {Delim, NodeMark, LeafMark} \subseteq {input[i] : i \in 1..Len(input)}
  /\ out = input

====
